---------------------------- MODULE Spec2Model ----------------------------
(***************************************************************************)
(* A model of malter's render cycle (src/main.rs): main() gates on the     *)
(* hour, reads the configuration, brings the e-paper panel up (get_epd),   *)
(* fetches the indoor and the outdoor/forecast documents (get_data),       *)
(* composes the three-column dashboard (draw), transfers the frame and     *)
(* puts the panel to sleep.                                                *)
(*                                                                         *)
(* Numbers (f64) are integers counting hundredths: 2140 is 21.40.          *)
(* Texts are sequences of one-character strings.                           *)
(***************************************************************************)
EXTENDS Integers, Sequences, FiniteSets, TLC

\* epd2in9::WIDTH and epd2in9::HEIGHT, the panel's native resolution
WIDTH == 128
HEIGHT == 296

\* Longest row of the time-series result the model serves
MaxRow == 4

VARIABLES
    pc,            \* the statement main() is about to execute
    result,        \* "running", or how main() ended: "ok", "err", "panic"
    failure,       \* the operation that failed, "none" while none has
    hour,          \* local.hour()
    spi,           \* the SPI device: "closed", "open", "configured"
    gpio,          \* sysfs state of every GPIO pin
    line,          \* the pin each control line (cs, busy, dc, rst) is bound to
    gstep,         \* position in get_epd()'s pin configuration sequence
    epd,           \* the panel: "none", "ready", "displayed", "asleep"
    rotation,      \* the display's rotation
    response1,     \* get_data(): the first `response` (time-series document)
    response2,     \* get_data(): the second `response` (weather document)
    indoor_data,
    outdoor_data,
    forecast_data,
    drawn,         \* the draw calls issued on the display, in order
    events         \* the calls made on the collaborators and the documents
                   \* they returned, in order

vars == <<pc, result, failure, hour, spi, gpio, line, gstep, epd, rotation,
          response1, response2, indoor_data, outdoor_data, forecast_data,
          drawn, events>>

-----------------------------------------------------------------------------
(* Texts *)

Digit == <<"0", "1", "2", "3", "4", "5", "6", "7", "8", "9">>

RECURSIVE Digits(_)
Digits(n) == IF n < 10 THEN <<Digit[n + 1]>>
             ELSE Digits(n \div 10) \o <<Digit[(n % 10) + 1]>>

Abs(x) == IF x < 0 THEN -x ELSE x

Sign(x) == IF x < 0 THEN <<"-">> ELSE <<>>

\* Round a magnitude m (hundredths) to a multiple of `unit` hundredths, to
\* nearest, as the formatter does on the value's exact expansion.  (A tie
\* goes to even; no document served here holds one.)
RoundTo(m, unit) ==
    LET q == m \div unit
        r == m % unit
    IN  IF 2 * r > unit \/ (2 * r = unit /\ q % 2 = 1) THEN q + 1 ELSE q

\* format!("{:.1}", x)
Fmt1(x) ==
    LET t == RoundTo(Abs(x), 10)
    IN  Sign(x) \o Digits(t \div 10) \o <<".">> \o <<Digit[(t % 10) + 1]>>

\* format!("{:.0}", x)
Fmt0(x) == Sign(x) \o Digits(RoundTo(Abs(x), 100))

\* The lines of a text: the pieces between its newlines
RECURSIVE Lines(_)
Lines(txt) ==
    IF \A i \in 1..Len(txt) : txt[i] # "\n" THEN <<txt>>
    ELSE LET k == CHOOSE i \in 1..Len(txt) :
                      txt[i] = "\n" /\ \A j \in 1..(i - 1) : txt[j] # "\n"
         IN  <<SubSeq(txt, 1, k - 1)>> \o Lines(SubSeq(txt, k + 1, Len(txt)))

StartsWith(txt, prefix) ==
    Len(txt) >= Len(prefix) /\ SubSeq(txt, 1, Len(prefix)) = prefix

-----------------------------------------------------------------------------
(* serde_json::Value.  A document is a function from paths to nodes; a path *)
(* is the sequence of keys from the root, an object key a string and an    *)
(* array index "#0", "#1", ...                                             *)

Node(t, n, s) == [t |-> t, n |-> n, s |-> s]
Null == Node("null", 0, <<>>)
Obj == Node("obj", 0, <<>>)
Arr == Node("arr", 0, <<>>)
Num(n) == Node("num", n, <<>>)
Str(s) == Node("str", 0, s)
Bool(b) == Node("bool", IF b THEN 1 ELSE 0, <<>>)

IdxKeys == <<"#0", "#1", "#2", "#3", "#4", "#5">>
IdxKey(i) == IdxKeys[i + 1]
IsIdx(key) == \E i \in DOMAIN IdxKeys : IdxKeys[i] = key

\* A reference into a document: a path in it, or the static NULL that
\* indexing yields on a miss
NullRef == [ok |-> FALSE, p |-> <<>>]
Root == [ok |-> TRUE, p |-> <<>>]

\* impl Index for str / usize: value[key]
Index(doc, r, key) ==
    LET child == Append(r.p, key)
    IN  IF /\ r.ok
           /\ doc[r.p].t = (IF IsIdx(key) THEN "arr" ELSE "obj")
           /\ child \in DOMAIN doc
        THEN [ok |-> TRUE, p |-> child]
        ELSE NullRef

RECURSIVE Walk(_, _, _)
Walk(doc, r, keys) ==
    IF keys = <<>> THEN r
    ELSE Walk(doc, Index(doc, r, Head(keys)), Tail(keys))

ValueAt(doc, r) == IF r.ok THEN doc[r.p] ELSE Null

\* value.as_f64().unwrap_or(0.0)
as_f64_or_0(doc, r) ==
    LET v == ValueAt(doc, r) IN IF v.t = "num" THEN v.n ELSE 0

\* Escaping of a JSON string's characters
RECURSIVE Escape(_)
Escape(s) ==
    IF s = <<>> THEN <<>>
    ELSE (CASE Head(s) = "\n" -> <<"\\", "n">>
            [] Head(s) = "\"" -> <<"\\", "\"">>
            [] Head(s) = "\\" -> <<"\\", "\\">>
            [] OTHER -> <<Head(s)>>) \o Escape(Tail(s))

\* value.to_string(): the JSON text of a value (scalars and empty containers)
to_string(doc, r) ==
    LET v == ValueAt(doc, r)
    IN  CASE v.t = "str" -> <<"\"">> \o Escape(v.s) \o <<"\"">>
          [] v.t = "null" -> <<"n", "u", "l", "l">>
          [] v.t = "bool" -> IF v.n = 1 THEN <<"t", "r", "u", "e">>
                                        ELSE <<"f", "a", "l", "s", "e">>
          [] v.t = "obj" -> <<"{", "}">>
          [] v.t = "arr" -> <<"[", "]">>


-----------------------------------------------------------------------------
(* The documents the two servers may answer with *)

Prefixes(path) == {SubSeq(path, 1, i) : i \in 0..Len(path)}

\* The containers above `path`: an array where the next key is an index,
\* an object where it is a name
Spine(path) ==
    [p \in Prefixes(path) \ {path} |->
        IF IsIdx(path[Len(p) + 1]) THEN Arr ELSE Obj]

\* A document that follows `path` for d keys and holds `leaf` there
CutAt(path, d, leaf) ==
    (SubSeq(path, 1, d) :> leaf) @@ Spine(SubSeq(path, 1, d))

\* response["results"][0]["series"][0]["values"][0]
ValuesPath == <<"results", "#0", "series", "#0", "values", "#0">>

\* The document whose first series has the single row `row`
IndoorDoc(row) ==
    [p \in {Append(ValuesPath, IdxKey(i - 1)) : i \in 1..Len(row)} |->
        row[CHOOSE i \in 1..Len(row) : Append(ValuesPath, IdxKey(i - 1)) = p]]
    @@ (ValuesPath :> Arr) @@ Spine(ValuesPath)

\* Columns of the query: time, temperature, pressure, humidity (and more)
Row1 == <<Str(<<"t", "1">>), Num(2140), Num(102610), Num(4920), Num(700)>>
Row2 == <<Str(<<"t", "2">>), Num(-46), Num(99860), Num(26), Num(700)>>

BadLeaves == {Null, Str(<<"x">>), Bool(TRUE)}

IndoorRows ==
    {SubSeq(Row1, 1, k) : k \in 0..MaxRow}
    \cup {SubSeq(Row2, 1, 4)}
    \cup {[SubSeq(Row1, 1, 4) EXCEPT ![i] = leaf] : i \in 2..4, leaf \in BadLeaves}
    \cup {[i \in 1..4 |-> IF i \in S THEN Null ELSE Row2[i]] : S \in SUBSET (2..4)}

IndoorDocs ==
    {IndoorDoc(row) : row \in IndoorRows}
    \cup {CutAt(ValuesPath, d, leaf) :
            d \in 0..Len(ValuesPath), leaf \in {Obj, Arr, Str(<<"x">>)}}

FieldPath ==
    [feels_like |-> <<"current", "feels_like">>,
     humidity |-> <<"current", "humidity">>,
     pressure |-> <<"current", "pressure">>,
     max |-> <<"daily", "#0", "temp", "max">>,
     min |-> <<"daily", "#0", "temp", "min">>,
     description |-> <<"daily", "#0", "weather", "#0", "description">>,
     pop |-> <<"daily", "#0", "pop">>]

CurrentFields == {"feels_like", "humidity", "pressure"}
DailyNumbers == {"max", "min", "pop"}
WeatherFields == DOMAIN FieldPath

\* The document holding leaf f[k] at FieldPath[k] for every k in DOMAIN f
WeatherDoc(f) ==
    LET P == {<<>>} \cup UNION {Prefixes(FieldPath[k]) : k \in DOMAIN f}
    IN  [p \in P |->
            IF \E k \in DOMAIN f : FieldPath[k] = p
            THEN f[CHOOSE k \in DOMAIN f : FieldPath[k] = p]
            ELSE IF \E k \in DOMAIN f :
                       /\ Len(FieldPath[k]) > Len(p)
                       /\ SubSeq(FieldPath[k], 1, Len(p)) = p
                       /\ IsIdx(FieldPath[k][Len(p) + 1])
                 THEN Arr ELSE Obj]

Weather1 ==
    [feels_like |-> Num(-300), humidity |-> Num(8000), pressure |-> Num(99860),
     max |-> Num(1020), min |-> Num(210), pop |-> Num(40),
     description |-> Str(<<"l", "i", "g", "h", "t", " ", "r", "a", "i", "n">>)]
Weather2 ==
    [feels_like |-> Num(1234), humidity |-> Num(4004), pressure |-> Num(101349),
     max |-> Num(1996), min |-> Num(-4), pop |-> Num(36),
     description |-> Str(<<"a", "\"", "b", "\n", "c">>)]

Restrict(f, S) == [k \in S |-> f[k]]

WeatherLeaves ==
    {Weather1, Weather2}
    \cup {[Weather1 EXCEPT ![k] = leaf] :
            k \in CurrentFields \cup DailyNumbers, leaf \in BadLeaves}
    \cup {[Weather1 EXCEPT !.description = leaf] : leaf \in {Null, Bool(FALSE), Obj, Arr}}
    \cup {Restrict(Weather1, WeatherFields \ {k}) : k \in WeatherFields}
    \cup {Restrict(Weather1, S) : S \in {CurrentFields, WeatherFields \ CurrentFields, {}}}
    \cup {Restrict(Weather2, WeatherFields \ S) : S \in SUBSET (CurrentFields \cup DailyNumbers)}

WeatherDocs ==
    {WeatherDoc(f) : f \in WeatherLeaves}
    \cup {CutAt(<<"daily", "#0">>, d, leaf) @@ WeatherDoc(Restrict(Weather1, CurrentFields)) :
            d \in 1..2, leaf \in {Arr, Str(<<"x">>)}}
    \cup {CutAt(<<>>, 0, leaf) : leaf \in {Null, Arr}}

\* A reading is present in a document when its section is there
OutdoorPresent(doc) == <<"current">> \in DOMAIN doc /\ doc[<<"current">>].t = "obj"
ForecastPresent(doc) ==
    <<"daily", "#0">> \in DOMAIN doc /\ doc[<<"daily", "#0">>].t = "obj"

-----------------------------------------------------------------------------
(* Errors: Result<T> = result::Result<T, Oops> *)

\* The error dropped and the next statement run
Question_ignored(ok, next) == [pc |-> next, result |-> "running"]

\* expr? : on Err, main() returns Err(Oops(message)) to its caller
Question(ok, next) ==
    IF ok THEN [pc |-> next, result |-> "running"]
    ELSE [pc |-> "exit", result |-> "err"]

\* expr.expect(message): on Err, the thread panics
Expect(ok, next) ==
    IF ok THEN [pc |-> next, result |-> "running"]
    ELSE [pc |-> "exit", result |-> "panic"]

Goto(o, ok, what) ==
    /\ pc' = o.pc
    /\ result' = o.result
    /\ failure' = IF ok THEN failure ELSE what

-----------------------------------------------------------------------------
(* main(), up to the panel *)

Hours == {0, 6, 7, 22, 23}

Pins == {17, 24, 25}
Lines4 == {"cs", "busy", "dc", "rst"}

Unexported == [exported |-> FALSE, direction |-> "in", value |-> 0]
NoData == [temp |-> 0, humidity |-> 0, pressure |-> 0]
NoForecast == [high |-> 0, low |-> 0, description |-> <<>>, pop |-> 0]
NoDoc == CutAt(<<>>, 0, Null)

Init ==
    /\ pc = "start"
    /\ result = "running"
    /\ failure = "none"
    /\ hour \in Hours
    /\ spi = "closed"
    /\ gpio = [p \in Pins |-> Unexported]
    /\ line = [l \in Lines4 |-> 0]
    /\ gstep = 1
    /\ epd = "none"
    /\ rotation = "Rotate0"
    /\ response1 = NoDoc
    /\ response2 = NoDoc
    /\ indoor_data = NoData
    /\ outdoor_data = NoData
    /\ forecast_data = NoForecast
    /\ drawn = <<>>
    /\ events = <<>>

\* if hour > 22 || hour < 7 { return Ok(()) }
BedTime(h) == h > 22 \/ h < 7

CheckHour ==
    /\ pc = "start"
    /\ IF BedTime(hour)
       THEN pc' = "exit" /\ result' = "ok"
       ELSE pc' = "read_conf" /\ result' = result
    /\ UNCHANGED <<failure, hour, spi, gpio, line, gstep, epd, rotation,
                   response1, response2, indoor_data, outdoor_data,
                   forecast_data, drawn, events>>

\* fs::read_to_string("conf.toml").expect(..)
ReadConf ==
    /\ pc = "read_conf"
    /\ \E ok \in BOOLEAN : Goto(Expect(ok, "parse_conf"), ok, "conf_read")
    /\ UNCHANGED <<hour, spi, gpio, line, gstep, epd, rotation,
                   response1, response2, indoor_data, outdoor_data,
                   forecast_data, drawn, events>>

\* toml::from_str(&conf_file)?
ParseConf ==
    /\ pc = "parse_conf"
    /\ \E ok \in BOOLEAN : Goto(Question(ok, "spi_open"), ok, "conf_parse")
    /\ UNCHANGED <<hour, spi, gpio, line, gstep, epd, rotation,
                   response1, response2, indoor_data, outdoor_data,
                   forecast_data, drawn, events>>

-----------------------------------------------------------------------------
(* get_epd() *)

\* Spidev::open("/dev/spidev0.0").expect(..)
SpiOpen ==
    /\ pc = "spi_open"
    /\ \E ok \in BOOLEAN :
         /\ Goto(Expect(ok, "spi_configure"), ok, "spi_open")
         /\ spi' = IF ok THEN "open" ELSE spi
    /\ UNCHANGED <<hour, gpio, line, gstep, epd, rotation,
                   response1, response2, indoor_data, outdoor_data,
                   forecast_data, drawn, events>>

\* spi.configure(&options).expect(..)
SpiConfigure ==
    /\ pc = "spi_configure"
    /\ \E ok \in BOOLEAN :
         /\ Goto(Expect(ok, "gpio"), ok, "spi_configure")
         /\ spi' = IF ok THEN "configured" ELSE spi
    /\ UNCHANGED <<hour, gpio, line, gstep, epd, rotation,
                   response1, response2, indoor_data, outdoor_data,
                   forecast_data, drawn, events>>

Step(l, op, arg) == [line |-> l, op |-> op, arg |-> arg]

\* The pin statements of get_epd(), in order
GpioProgram ==
    << Step("cs", "new", 24), Step("cs", "export", 0), Step("cs", "wait", 0),
       Step("cs", "direction", 1), Step("cs", "value", 1),
       Step("busy", "new", 24), Step("busy", "export", 0), Step("busy", "wait", 0),
       Step("busy", "direction", 0),
       Step("dc", "new", 25), Step("dc", "export", 0), Step("dc", "wait", 0),
       Step("dc", "direction", 1), Step("dc", "value", 1),
       Step("rst", "new", 17), Step("rst", "export", 0), Step("rst", "wait", 0),
       Step("rst", "direction", 1), Step("rst", "value", 1) >>

AtStep(op) == pc = "gpio" /\ gstep <= Len(GpioProgram) /\ GpioProgram[gstep].op = op
Cur == GpioProgram[gstep]

GpioRest == <<hour, spi, epd, rotation, response1, response2, indoor_data,
              outdoor_data, forecast_data, drawn, events>>

\* let cs = Pin::new(24)
PinNew ==
    /\ AtStep("new")
    /\ line' = [line EXCEPT ![Cur.line] = Cur.arg]
    /\ gstep' = gstep + 1
    /\ UNCHANGED <<pc, result, failure, gpio>>
    /\ UNCHANGED GpioRest

\* pin.export().expect(..): a pin already exported stays as it is
PinExport ==
    /\ AtStep("export")
    /\ \E ok \in BOOLEAN :
         /\ Goto(Expect(ok, "gpio"), ok, "gpio_export")
         /\ gpio' = IF ok THEN [gpio EXCEPT ![line[Cur.line]].exported = TRUE]
                          ELSE gpio
         /\ gstep' = IF ok THEN gstep + 1 ELSE gstep
    /\ UNCHANGED line
    /\ UNCHANGED GpioRest

\* while !pin.is_exported() {}
PinWait ==
    /\ AtStep("wait")
    /\ gpio[line[Cur.line]].exported
    /\ gstep' = gstep + 1
    /\ UNCHANGED <<pc, result, failure, gpio, line>>
    /\ UNCHANGED GpioRest

DirectionOf(arg) == IF arg = 1 THEN "out" ELSE "in"

\* pin.set_direction(..).expect(..): writing "out" drives the pin low
PinSetDirection ==
    /\ AtStep("direction")
    /\ \E ok \in BOOLEAN :
         /\ Goto(Expect(ok, "gpio"), ok, "gpio_direction")
         /\ gpio' = IF ok
                    THEN [gpio EXCEPT ![line[Cur.line]] =
                            [exported |-> @.exported,
                             direction |-> DirectionOf(Cur.arg),
                             value |-> IF Cur.arg = 1 THEN 0 ELSE @.value]]
                    ELSE gpio
         /\ gstep' = IF ok THEN gstep + 1 ELSE gstep
    /\ UNCHANGED line
    /\ UNCHANGED GpioRest

\* pin.set_value(1).expect(..)
PinSetValue ==
    /\ AtStep("value")
    /\ \E ok \in BOOLEAN :
         /\ Goto(Expect(ok, "gpio"), ok, "gpio_value")
         /\ gpio' = IF ok THEN [gpio EXCEPT ![line[Cur.line]].value = Cur.arg]
                          ELSE gpio
         /\ gstep' = IF ok THEN gstep + 1 ELSE gstep
    /\ UNCHANGED line
    /\ UNCHANGED GpioRest

\* let epd = EPD2in9::new(&mut spi, cs, busy, dc, rst, &mut delay)?;
\* return Ok((epd, spi)), and main()'s get_epd()?
EpdNew ==
    /\ pc = "gpio"
    /\ gstep = Len(GpioProgram) + 1
    /\ \E ok \in BOOLEAN :
         /\ Goto(Question(ok, "display"), ok, "epd_new")
         /\ epd' = IF ok THEN "ready" ELSE epd
         /\ events' = IF ok THEN Append(events, "acquire") ELSE events
    /\ UNCHANGED <<hour, spi, gpio, line, gstep, rotation, response1, response2,
                   indoor_data, outdoor_data, forecast_data, drawn>>

\* Display2in9::default(); display.set_rotation(DisplayRotation::Rotate90)
DisplayNew ==
    /\ pc = "display"
    /\ rotation' = "Rotate90"
    /\ pc' = "indoor_call"
    /\ UNCHANGED <<result, failure, hour, spi, gpio, line, gstep, epd,
                   response1, response2, indoor_data, outdoor_data,
                   forecast_data, drawn, events>>

-----------------------------------------------------------------------------
(* get_data() *)

DataRest == <<hour, spi, gpio, line, gstep, epd, rotation, drawn>>

\* ureq::get(&config.influx_server)...call()?
IndoorCall ==
    /\ pc = "indoor_call"
    /\ events' = Append(events, "indoor_call")
    /\ \E ok \in BOOLEAN : Goto(Question(ok, "indoor_json"), ok, "indoor_call")
    /\ UNCHANGED <<response1, response2, indoor_data, outdoor_data, forecast_data>>
    /\ UNCHANGED DataRest

\* .into_json()?
IndoorJson ==
    /\ pc = "indoor_json"
    /\ \/ \E doc \in IndoorDocs :
            /\ response1' = doc
            /\ events' = Append(events, "indoor_doc")
            /\ Goto(Question(TRUE, "indoor_extract"), TRUE, "indoor_json")
       \/ /\ UNCHANGED <<response1, events>>
          /\ Goto(Question(FALSE, "indoor_extract"), FALSE, "indoor_json")
    /\ UNCHANGED <<response2, indoor_data, outdoor_data, forecast_data>>
    /\ UNCHANGED DataRest

\* The pressure and humidity columns taken for each other
IndoorOf_swapped(doc) ==
    LET values == Walk(doc, Root, ValuesPath)
    IN  [temp |-> as_f64_or_0(doc, Index(doc, values, "#1")),
         humidity |-> as_f64_or_0(doc, Index(doc, values, "#2")),
         pressure |-> as_f64_or_0(doc, Index(doc, values, "#3"))]

\* let values = &response["results"][0]["series"][0]["values"][0];
\* IndoorData { temp: values[1].., humidity: values[3].., pressure: values[2].. }
IndoorOf(doc) ==
    LET values == Walk(doc, Root, ValuesPath)
    IN  [temp |-> as_f64_or_0(doc, Index(doc, values, "#1")),
         humidity |-> as_f64_or_0(doc, Index(doc, values, "#3")),
         pressure |-> as_f64_or_0(doc, Index(doc, values, "#2"))]

IndoorExtract ==
    /\ pc = "indoor_extract"
    /\ indoor_data' = IndoorOf(response1)
    /\ pc' = "outdoor_call"
    /\ UNCHANGED <<result, failure, response1, response2, outdoor_data,
                   forecast_data, events>>
    /\ UNCHANGED DataRest

\* ureq::get("https://api.openweathermap.org/data/2.5/onecall")...call()?
OutdoorCall ==
    /\ pc = "outdoor_call"
    /\ events' = Append(events, "outdoor_call")
    /\ \E ok \in BOOLEAN : Goto(Question(ok, "outdoor_json"), ok, "outdoor_call")
    /\ UNCHANGED <<response1, response2, indoor_data, outdoor_data, forecast_data>>
    /\ UNCHANGED DataRest

\* .into_json()?
OutdoorJson ==
    /\ pc = "outdoor_json"
    /\ \/ \E doc \in WeatherDocs :
            /\ response2' = doc
            /\ events' = Append(events, "outdoor_doc")
            /\ Goto(Question(TRUE, "outdoor_extract"), TRUE, "outdoor_json")
       \/ /\ UNCHANGED <<response2, events>>
          /\ Goto(Question(FALSE, "outdoor_extract"), FALSE, "outdoor_json")
    /\ UNCHANGED <<response1, indoor_data, outdoor_data, forecast_data>>
    /\ UNCHANGED DataRest

\* OutdoorData { temp: response["current"]["feels_like"].., .. }
OutdoorOf(doc) ==
    LET current == Index(doc, Root, "current")
    IN  [temp |-> as_f64_or_0(doc, Index(doc, current, "feels_like")),
         humidity |-> as_f64_or_0(doc, Index(doc, current, "humidity")),
         pressure |-> as_f64_or_0(doc, Index(doc, current, "pressure"))]

\* ForecastData { high: response["daily"][0]["temp"]["max"].., .. }
ForecastOf(doc) ==
    LET day == Walk(doc, Root, <<"daily", "#0">>)
    IN  [high |-> as_f64_or_0(doc, Walk(doc, day, <<"temp", "max">>)),
         low |-> as_f64_or_0(doc, Walk(doc, day, <<"temp", "min">>)),
         description |-> to_string(doc, Walk(doc, day, <<"weather", "#0", "description">>)),
         pop |-> as_f64_or_0(doc, Index(doc, day, "pop"))]

\* ... return Ok((indoor_data, outdoor_data, forecast_data)), and main()'s
\* get_data(&config)?
OutdoorExtract ==
    /\ pc = "outdoor_extract"
    /\ outdoor_data' = OutdoorOf(response2)
    /\ forecast_data' = ForecastOf(response2)
    /\ pc' = "draw"
    /\ UNCHANGED <<result, failure, response1, response2, indoor_data, events>>
    /\ UNCHANGED DataRest

-----------------------------------------------------------------------------
(* draw() *)

Point(x, y) == [x |-> x, y |-> y]
Rectangle(top_left, bottom_right) ==
    [top_left |-> top_left, bottom_right |-> bottom_right]

\* Both corners of a Rectangle are pixels of it
Columns(r) == r.top_left.x .. r.bottom_right.x
Rows(r) == r.top_left.y .. r.bottom_right.y

\* The display's size as drawn on: a quarter turn swaps the panel's axes
CanvasWidth == IF rotation \in {"Rotate90", "Rotate270"} THEN HEIGHT ELSE WIDTH
CanvasHeight == IF rotation \in {"Rotate90", "Rotate270"} THEN WIDTH ELSE HEIGHT

left_top == Rectangle(Point(0, 0), Point(HEIGHT \div 3, WIDTH \div 2))
left_bottom == Rectangle(Point(0, WIDTH \div 2), Point(HEIGHT \div 3, WIDTH))
middle_top ==
    Rectangle(Point(HEIGHT \div 3, 0), Point((HEIGHT \div 3) * 2, WIDTH \div 2))
middle_bottom ==
    Rectangle(Point(HEIGHT \div 3, WIDTH \div 2), Point((HEIGHT \div 3) * 2, WIDTH))
right == Rectangle(Point((HEIGHT \div 3) * 2, 0), Point(HEIGHT, WIDTH))

\* format!("{:.1}C", data.temp)
temp_txt(data) == Fmt1(data.temp) \o <<"C">>

\* format!("{:.1}%\n{:.0} hPa", data.humidity, data.pressure)
minor_text(data) ==
    Fmt1(data.humidity) \o <<"%", "\n">> \o Fmt0(data.pressure)
    \o <<" ", "h", "P", "a">>

\* One newline before the description
forecast_text_joined(fc) ==
    <<"H", "i", "g", "h", ":", " ">> \o Fmt1(fc.high)
    \o <<"\n", " ", " ", "L", "o", "w", ":", " ">> \o Fmt1(fc.low)
    \o <<"\n", " ", " ", "P", "o", "p", ":", " ">> \o Fmt1(fc.pop)
    \o <<"%", "\n">> \o fc.description

\* format!("High: {:.1}\n  Low: {:.1}\n  Pop: {:.1}%\n\n{}", high, low, pop,
\*         description)
forecast_text(fc) ==
    <<"H", "i", "g", "h", ":", " ">> \o Fmt1(fc.high)
    \o <<"\n", " ", " ", "L", "o", "w", ":", " ">> \o Fmt1(fc.low)
    \o <<"\n", " ", " ", "P", "o", "p", ":", " ">> \o Fmt1(fc.pop)
    \o <<"%", "\n", "\n">> \o fc.description

TextBox(txt, bounds, font) ==
    [op |-> "text", rect |-> bounds, text |-> txt, font |-> font]
Outline(r) == [op |-> "outline", rect |-> r, text |-> <<>>, font |-> "none"]

\* The outdoor reading drawn into band 1 and the indoor reading into band 2
DrawCalls_swapped(indoor, outdoor, forecast) ==
    << TextBox(temp_txt(outdoor), left_top, "Font12x16"),
       Outline(left_top),
       TextBox(minor_text(outdoor), left_bottom, "Font8x16"),
       Outline(left_bottom),
       TextBox(temp_txt(indoor), middle_top, "Font12x16"),
       Outline(middle_top),
       TextBox(minor_text(indoor), middle_bottom, "Font8x16"),
       Outline(middle_bottom),
       TextBox(forecast_text(forecast), right, "Font8x16"),
       Outline(right) >>

\* A compositor that draws a band only when the document held its reading
DrawCalls_by_presence(indoor, outdoor, forecast) ==
    << TextBox(temp_txt(indoor), left_top, "Font12x16"),
       Outline(left_top),
       TextBox(minor_text(indoor), left_bottom, "Font8x16"),
       Outline(left_bottom) >>
    \o (IF OutdoorPresent(response2)
        THEN << TextBox(temp_txt(outdoor), middle_top, "Font12x16"),
                Outline(middle_top),
                TextBox(minor_text(outdoor), middle_bottom, "Font8x16"),
                Outline(middle_bottom) >>
        ELSE <<>>)
    \o (IF OutdoorPresent(response2) /\ ForecastPresent(response2)
        THEN << TextBox(forecast_text(forecast), right, "Font8x16"),
                Outline(right) >>
        ELSE <<>>)

\* The draw calls of draw(), in the order of its statements
DrawCalls(indoor, outdoor, forecast) ==
    << TextBox(temp_txt(indoor), left_top, "Font12x16"),
       Outline(left_top),
       TextBox(minor_text(indoor), left_bottom, "Font8x16"),
       Outline(left_bottom),
       TextBox(temp_txt(outdoor), middle_top, "Font12x16"),
       Outline(middle_top),
       TextBox(minor_text(outdoor), middle_bottom, "Font8x16"),
       Outline(middle_bottom),
       TextBox(forecast_text(forecast), right, "Font8x16"),
       Outline(right) >>

Program == DrawCalls(indoor_data, outdoor_data, forecast_data)

\* draw() returning after its first draw call
DrawComplete_early(calls) == Len(calls) >= 1

\* draw() has reached its Ok(())
DrawComplete(calls) == Len(calls) = Len(Program)

\* x.draw(display).expect("impossible")
DrawCall ==
    /\ pc = "draw"
    /\ ~DrawComplete(drawn)
    /\ Len(drawn) < Len(Program)
    /\ drawn' = Append(drawn, Program[Len(drawn) + 1])
    /\ events' = Append(events, "draw")
    /\ \E ok \in BOOLEAN : Goto(Expect(ok, "draw"), ok, "draw")
    /\ UNCHANGED <<hour, spi, gpio, line, gstep, epd, rotation, response1,
                   response2, indoor_data, outdoor_data, forecast_data>>

\* Ok(()), and main()'s draw(..)?
DrawReturn ==
    /\ pc = "draw"
    /\ DrawComplete(drawn)
    /\ pc' = "update"
    /\ UNCHANGED <<result, failure, hour, spi, gpio, line, gstep, epd, rotation,
                   response1, response2, indoor_data, outdoor_data,
                   forecast_data, drawn, events>>

-----------------------------------------------------------------------------
(* main(), after draw() *)

\* epd.update_and_display_frame(&mut spi, &display.buffer())?
UpdateFrame ==
    /\ pc = "update"
    /\ events' = Append(events, "transfer")
    /\ \E ok \in BOOLEAN :
         /\ Goto(Question(ok, "sleep"), ok, "transfer")
         /\ epd' = IF ok THEN "displayed" ELSE epd
    /\ UNCHANGED <<hour, spi, gpio, line, gstep, rotation, response1,
                   response2, indoor_data, outdoor_data, forecast_data, drawn>>

\* epd.sleep(&mut spi)?
Sleep ==
    /\ pc = "sleep"
    /\ events' = Append(events, "sleep")
    /\ \E ok \in BOOLEAN :
         /\ Goto(Question(ok, "return"), ok, "sleep")
         /\ epd' = IF ok THEN "asleep" ELSE epd
    /\ UNCHANGED <<hour, spi, gpio, line, gstep, rotation, response1,
                   response2, indoor_data, outdoor_data, forecast_data, drawn>>

\* Ok(())
Return ==
    /\ pc = "return"
    /\ pc' = "exit"
    /\ result' = "ok"
    /\ UNCHANGED <<failure, hour, spi, gpio, line, gstep, epd, rotation,
                   response1, response2, indoor_data, outdoor_data,
                   forecast_data, drawn, events>>

Next ==
    \/ CheckHour
    \/ ReadConf
    \/ ParseConf
    \/ SpiOpen
    \/ SpiConfigure
    \/ PinNew
    \/ PinExport
    \/ PinWait
    \/ PinSetDirection
    \/ PinSetValue
    \/ EpdNew
    \/ DisplayNew
    \/ IndoorCall
    \/ IndoorJson
    \/ IndoorExtract
    \/ OutdoorCall
    \/ OutdoorJson
    \/ OutdoorExtract
    \/ DrawCall
    \/ DrawReturn
    \/ UpdateFrame
    \/ Sleep
    \/ Return

Spec == Init /\ [][Next]_vars

-----------------------------------------------------------------------------
(* Properties *)

Count(e) == Cardinality({i \in 1..Len(events) : events[i] = e})
Has(e) == Count(e) > 0

\* draw() has returned Ok(())
DrawReturned == pc \in {"update", "sleep", "return"} \/ Has("transfer")

Band1Rects == {left_top, left_bottom}
Band2Rects == {middle_top, middle_bottom}
Band3Rects == {right}
BandOf(r) == CASE r \in Band1Rects -> 1 [] r \in Band2Rects -> 2 [] r \in Band3Rects -> 3

\* The pixel columns the rectangles drawn into band k cover
BandColumns(k) ==
    UNION {Columns(drawn[i].rect) : i \in {j \in 1..Len(drawn) : BandOf(drawn[j].rect) = k}}

\* C1: once draw() has returned, the pixel columns of the three bands are
\* pairwise disjoint, their union is [0, W) for W the rotated canvas width,
\* bands 1 and 2 are W div 3 columns wide each and band 3 takes the rest.
C1_BandsTileWidth ==
    DrawReturned =>
        LET W == CanvasWidth
            b == W \div 3
        IN  /\ BandColumns(1) \cap BandColumns(2) = {}
            /\ BandColumns(1) \cap BandColumns(3) = {}
            /\ BandColumns(2) \cap BandColumns(3) = {}
            /\ BandColumns(1) \cup BandColumns(2) \cup BandColumns(3) = 0..(W - 1)
            /\ Cardinality(BandColumns(1)) = b
            /\ Cardinality(BandColumns(2)) = b
            /\ Cardinality(BandColumns(3)) = b + (W % 3)

InCanvas(pt) ==
    /\ 0 <= pt.x /\ pt.x < CanvasWidth
    /\ 0 <= pt.y /\ pt.y < CanvasHeight

\* C2: both corners of every rectangle draw() has drawn into lie inside the
\* rotated canvas, x in [0, width) and y in [0, height).
C2_CornersInsideCanvas ==
    \A i \in 1..Len(drawn) :
        InCanvas(drawn[i].rect.top_left) /\ InCanvas(drawn[i].rect.bottom_right)

\* The number a document holds at a path, 0.0 when the path is absent or
\* holds no number
NumberAt(doc, path) ==
    IF path \in DOMAIN doc /\ doc[path].t = "num" THEN doc[path].n ELSE 0

GetDataFailures == {"indoor_call", "indoor_json", "outdoor_call", "outdoor_json"}

\* C3: when both transport calls returned a document, get_data() returns Ok,
\* and each numeric field of the three records is the number the document
\* holds at the field's path, or 0.0 when it holds none there.
C3_DefaultsOnMissingFields ==
    Has("outdoor_doc") =>
        /\ failure \notin GetDataFailures
        /\ pc = "outdoor_extract" \/ Has("draw") \/ pc = "draw"
        /\ indoor_data.temp = NumberAt(response1, Append(ValuesPath, "#1"))
        /\ indoor_data.humidity = NumberAt(response1, Append(ValuesPath, "#3"))
        /\ indoor_data.pressure = NumberAt(response1, Append(ValuesPath, "#2"))
        /\ pc # "outdoor_extract" =>
            /\ outdoor_data.temp = NumberAt(response2, <<"current", "feels_like">>)
            /\ outdoor_data.humidity = NumberAt(response2, <<"current", "humidity">>)
            /\ outdoor_data.pressure = NumberAt(response2, <<"current", "pressure">>)
            /\ forecast_data.high = NumberAt(response2, <<"daily", "#0", "temp", "max">>)
            /\ forecast_data.low = NumberAt(response2, <<"daily", "#0", "temp", "min">>)
            /\ forecast_data.pop = NumberAt(response2, <<"daily", "#0", "pop">>)

\* get_data() has returned with the humidity column not a number, the
\* temperature column a number, and no weather section in the second document
C3_Witness ==
    /\ pc = "draw"
    /\ Append(ValuesPath, "#3") \in DOMAIN response1
    /\ response1[Append(ValuesPath, "#3")].t = "str"
    /\ indoor_data.temp = 2140
    /\ indoor_data.humidity = 0
    /\ ~OutdoorPresent(response2)
    /\ forecast_data.high = 1020

\* C4: after a failed transport call the cycle has ended with an error, each
\* call was made at most once, the second call was not made when the first
\* failed, and nothing was drawn or transferred.
C4_TransportFailureEndsCycle ==
    /\ Count("indoor_call") <= 1
    /\ Count("outdoor_call") <= 1
    /\ failure \in GetDataFailures =>
        /\ pc = "exit"
        /\ result = "err"
        /\ failure \in {"indoor_call", "indoor_json"} => ~Has("outdoor_call")
        /\ ~Has("draw")
        /\ drawn = <<>>
        /\ ~Has("transfer")

\* The second transport call failed after the first returned a document
C4_Witness ==
    /\ failure = "outdoor_call"
    /\ Has("indoor_doc")
    /\ pc = "exit"

\* C5: every failure other than a draw call's ends main() by returning Err
\* (never by a panic), and a configuration failure ends it before the panel
\* is touched or any data is requested.
C5_FailuresReturnOops ==
    /\ failure \notin {"none", "draw"} => result = "err"
    /\ failure \in {"conf_read", "conf_parse"} =>
        events = <<>> /\ spi = "closed" /\ epd = "none"

FullCycle ==
    <<"acquire", "indoor_call", "indoor_doc", "outdoor_call", "outdoor_doc",
      "draw", "draw", "draw", "draw", "draw", "draw", "draw", "draw", "draw",
      "draw", "transfer", "sleep">>

\* C6: the frame is transferred at most once, only after draw() returned
\* with all ten draw calls made and never before a draw call; the panel is
\* put to sleep only after a successful transfer; a cycle that succeeds made
\* its calls in the order acquire, both fetches, the draw calls, transfer,
\* sleep.
C6_SingleTransferAfterDraw ==
    /\ Count("transfer") <= 1
    /\ Has("transfer") => Count("draw") = 10 /\ Len(drawn) = 10
    /\ \A i, j \in 1..Len(events) :
          events[i] = "transfer" /\ events[j] = "draw" => j < i
    /\ Has("sleep") =>
          /\ Has("transfer")
          /\ failure # "transfer"
          /\ epd \in {"displayed", "asleep"}
          /\ Count("sleep") = 1
    /\ (result = "ok" /\ ~BedTime(hour)) => events = FullCycle

\* A cycle in which every step succeeded
C6_Witness == result = "ok" /\ epd = "asleep" /\ Has("transfer")

BandsDrawn == {BandOf(drawn[i].rect) : i \in 1..Len(drawn)}

CallsInto(k) == Cardinality({i \in 1..Len(drawn) : BandOf(drawn[i].rect) = k})

Half(i) == IF i \in {1, 2, 5, 6, 9, 10} THEN 0 ELSE WIDTH \div 2

\* C8: the draw calls are made in one fixed order, each once: in band 1 the
\* indoor temperature then its outline, the indoor humidity and pressure then
\* their outline, the same for the outdoor reading in band 2, then the
\* forecast text and its outline in band 3; every outline is of the
\* rectangle of the text before it, and each band shows its own reading.
C8_FixedDrawOrder ==
    /\ Len(drawn) <= 10
    /\ DrawReturned => Len(drawn) = 10
    /\ \A i \in 1..Len(drawn) :
          /\ drawn[i].op = (IF i % 2 = 1 THEN "text" ELSE "outline")
          /\ i % 2 = 0 => drawn[i].rect = drawn[i - 1].rect
          /\ BandOf(drawn[i].rect) = (IF i <= 4 THEN 1 ELSE IF i <= 8 THEN 2 ELSE 3)
          /\ drawn[i].rect.top_left.y = Half(i)
    /\ Len(drawn) >= 1 => drawn[1].text = Fmt1(indoor_data.temp) \o <<"C">>
    /\ Len(drawn) >= 3 => drawn[3].text = minor_text(indoor_data)
    /\ Len(drawn) >= 5 => drawn[5].text = Fmt1(outdoor_data.temp) \o <<"C">>
    /\ Len(drawn) >= 7 => drawn[7].text = minor_text(outdoor_data)
    /\ Len(drawn) >= 9 => drawn[9].text = forecast_text(forecast_data)

\* draw() has returned after drawing an indoor and an outdoor reading that
\* differ in every field
C8_Witness ==
    /\ DrawReturned
    /\ indoor_data.temp # outdoor_data.temp
    /\ indoor_data.humidity # outdoor_data.humidity
    /\ indoor_data.pressure # outdoor_data.pressure
    /\ indoor_data.temp # 0
    /\ outdoor_data.temp # 0

EndsWith(txt, suffix) ==
    /\ Len(txt) >= Len(suffix)
    /\ SubSeq(txt, Len(txt) - Len(suffix) + 1, Len(txt)) = suffix

ForecastTexts == {drawn[i].text : i \in {j \in 1..Len(drawn) :
                     drawn[j].op = "text" /\ drawn[j].rect = right}}

\* C9 as stated: the text drawn into band 3 has exactly four lines, high,
\* low, precipitation probability and description, each beginning with its
\* label.
C9_FourLabelledLines ==
    \A txt \in ForecastTexts :
        LET L == Lines(txt)
        IN  /\ Len(L) = 4
            /\ StartsWith(L[1], <<"H", "i", "g", "h">>)
            /\ StartsWith(L[2], <<"L", "o", "w">>)
            /\ StartsWith(L[3], <<"P", "o", "p">>)
            /\ EndsWith(L[4], forecast_data.description)
            /\ Len(L[4]) > Len(forecast_data.description)

\* C9 (amended): the text drawn into band 3 has exactly five lines: "High: "
\* and the high, "  Low: " and the low, "  Pop: " and the probability
\* followed by "%", an empty line, and the description with no label; the
\* numbers are written with one decimal.
C9_FiveLinesThreeLabels ==
    \A txt \in ForecastTexts :
        Lines(txt) =
            << <<"H", "i", "g", "h", ":", " ">> \o Fmt1(forecast_data.high),
               <<" ", " ", "L", "o", "w", ":", " ">> \o Fmt1(forecast_data.low),
               <<" ", " ", "P", "o", "p", ":", " ">> \o Fmt1(forecast_data.pop)
                   \o <<"%">>,
               <<>>,
               forecast_data.description >>

\* The forecast text has been drawn for a forecast whose description holds a
\* quote and a line break and whose numbers differ
C9_Witness ==
    /\ ForecastTexts # {}
    /\ forecast_data.high = 1996
    /\ forecast_data.low = -4
    /\ forecast_data.pop = 36
    /\ Len(forecast_data.description) = 9

ConfiguredAs(l, direction, value) ==
    /\ gpio[line[l]].exported
    /\ gpio[line[l]].direction = direction
    /\ direction = "out" => gpio[line[l]].value = value

\* C10: once get_epd() has returned the panel, the four control lines are
\* bound to four different pins, chip-select, data/command and reset are
\* outputs driven to 1 and busy is an input.
C10_DistinctPinsKeepConfig ==
    epd # "none" =>
        /\ \A a, b \in Lines4 : a # b => line[a] # line[b]
        /\ ConfiguredAs("cs", "out", 1)
        /\ ConfiguredAs("busy", "in", 0)
        /\ ConfiguredAs("dc", "out", 1)
        /\ ConfiguredAs("rst", "out", 1)

=============================================================================
